---- MODULE Spec2Model ----
(***************************************************************************)
(* Model of src/geojson.rs of rust-geojson: the GeoJson root enum, its     *)
(* conversions to and from JsonObject, the Type tag classifier and the     *)
(* text entry points (FromStr / Display).                                  *)
(***************************************************************************)
EXTENDS Integers, Sequences, FiniteSets

VARIABLES pc, doc, text, object, type_, calls, delegated, result, entry

vars == <<pc, doc, text, object, type_, calls, delegated, result, entry>>

(***************************************************************************)
(* Bounds of the model.                                                    *)
(***************************************************************************)
\* largest number of features held by a FeatureCollection value
MaxFeatures == 1
\* largest coordinate number used in a position
MaxCoord == 1
\* largest number of members held by a GeometryCollection value
MaxGeometries == 1

(***************************************************************************)
(* Option and Result.                                                      *)
(***************************************************************************)
None == <<>>
Some(v) == <<v>>

Ok(v) == [ok |-> TRUE, err |-> "", val |-> <<v>>]
Err(e) == [ok |-> FALSE, err |-> e, val |-> <<>>]


(***************************************************************************)
(* serde_json::Value and JsonObject (a map from string keys to values).    *)
(***************************************************************************)
JNull == [kind |-> "Null", s |-> "", n |-> 0, a |-> <<>>, o |-> <<>>]
JBool(b) == [kind |-> "Bool", s |-> "", n |-> IF b THEN 1 ELSE 0, a |-> <<>>, o |-> <<>>]
JNumber(i) == [kind |-> "Number", s |-> "", n |-> i, a |-> <<>>, o |-> <<>>]
JString(str) == [kind |-> "String", s |-> str, n |-> 0, a |-> <<>>, o |-> <<>>]
JArray(items) == [kind |-> "Array", s |-> "", n |-> 0, a |-> items, o |-> <<>>]
JObject(map) == [kind |-> "Object", s |-> "", n |-> 0, a |-> <<>>, o |-> map]

\* JsonObject::get
Map_get(map, key) == IF key \in DOMAIN map THEN Some(map[key]) ELSE None

(***************************************************************************)
(* enum Type and its two methods.                                          *)
(***************************************************************************)
Type_Point == [Type |-> "Point"]
Type_MultiPoint == [Type |-> "MultiPoint"]
Type_LineString == [Type |-> "LineString"]
Type_MultiLineString == [Type |-> "MultiLineString"]
Type_Polygon == [Type |-> "Polygon"]
Type_MultiPolygon == [Type |-> "MultiPolygon"]
Type_GeometryCollection == [Type |-> "GeometryCollection"]
Type_Feature == [Type |-> "Feature"]
Type_FeatureCollection == [Type |-> "FeatureCollection"]

Type ==
  { Type_Point, Type_MultiPoint, Type_LineString, Type_MultiLineString,
    Type_Polygon, Type_MultiPolygon, Type_GeometryCollection,
    Type_Feature, Type_FeatureCollection }

\* is_geometry_type without the GeometryCollection alternative
is_geometry_type_six(self) ==
  CASE self = Type_Point -> TRUE
    [] self = Type_MultiPoint -> TRUE
    [] self = Type_LineString -> TRUE
    [] self = Type_MultiLineString -> TRUE
    [] self = Type_Polygon -> TRUE
    [] self = Type_MultiPolygon -> TRUE
    [] OTHER -> FALSE

\* is_geometry_type whose catch-all arm answers true
is_geometry_type_all(self) ==
  CASE self = Type_Point -> TRUE
    [] self = Type_MultiPoint -> TRUE
    [] self = Type_LineString -> TRUE
    [] self = Type_MultiLineString -> TRUE
    [] self = Type_Polygon -> TRUE
    [] self = Type_MultiPolygon -> TRUE
    [] self = Type_GeometryCollection -> TRUE
    [] OTHER -> TRUE

is_geometry_type(self) ==
  CASE self = Type_Point -> TRUE
    [] self = Type_MultiPoint -> TRUE
    [] self = Type_LineString -> TRUE
    [] self = Type_MultiLineString -> TRUE
    [] self = Type_Polygon -> TRUE
    [] self = Type_MultiPolygon -> TRUE
    [] self = Type_GeometryCollection -> TRUE
    [] OTHER -> FALSE

\* Type::from_str that also accepts the lower-case spelling of two literals
Type_from_str_ignore_case(s) ==
  CASE s = "Point" -> Some(Type_Point)
    [] s = "point" -> Some(Type_Point)
    [] s = "MultiPoint" -> Some(Type_MultiPoint)
    [] s = "LineString" -> Some(Type_LineString)
    [] s = "MultiLineString" -> Some(Type_MultiLineString)
    [] s = "Polygon" -> Some(Type_Polygon)
    [] s = "MultiPolygon" -> Some(Type_MultiPolygon)
    [] s = "GeometryCollection" -> Some(Type_GeometryCollection)
    [] s = "Feature" -> Some(Type_Feature)
    [] s = "feature" -> Some(Type_Feature)
    [] s = "FeatureCollection" -> Some(Type_FeatureCollection)
    [] OTHER -> None

Type_from_str(s) ==
  CASE s = "Point" -> Some(Type_Point)
    [] s = "MultiPoint" -> Some(Type_MultiPoint)
    [] s = "LineString" -> Some(Type_LineString)
    [] s = "MultiLineString" -> Some(Type_MultiLineString)
    [] s = "Polygon" -> Some(Type_Polygon)
    [] s = "MultiPolygon" -> Some(Type_MultiPolygon)
    [] s = "GeometryCollection" -> Some(Type_GeometryCollection)
    [] s = "Feature" -> Some(Type_Feature)
    [] s = "FeatureCollection" -> Some(Type_FeatureCollection)
    [] OTHER -> None

\* the expect_string! macro: the string held by a value, or an early return
expect_string(value) ==
  IF value.kind = "String" THEN Ok(value.s) ELSE Err("ExpectedStringValue")

(***************************************************************************)
(* The three shape collaborators (Geometry, Feature, FeatureCollection):   *)
(* their values and their to-object / from-object pairs.                   *)
(***************************************************************************)
GeometryTypeNames ==
  { "Point", "MultiPoint", "LineString", "MultiLineString", "Polygon",
    "MultiPolygon" }

\* index of the first failed result of a sequence of results, 0 when none
FirstErr(rs) ==
  IF \E i \in DOMAIN rs : ~rs[i].ok
    THEN CHOOSE i \in DOMAIN rs : ~rs[i].ok /\ \A j \in 1..(i - 1) : rs[j].ok
    ELSE 0

\* the error at position first of a sequence of results, or all the values
CollectAt(rs, first) ==
  IF first # 0 THEN Err(rs[first].err)
  ELSE Ok([i \in DOMAIN rs |-> rs[i].val[1]])

\* collect a sequence of results: the first error, or all the values
Collect(rs) == CollectAt(rs, FirstErr(rs))

\* a position-like payload: an array of numbers
get_coords(value) ==
  IF value.kind # "Array" THEN Err("ExpectedArrayValue")
  ELSE Collect([i \in DOMAIN value.a |->
                  IF value.a[i].kind = "Number" THEN Ok(value.a[i].n)
                  ELSE Err("ExpectedF64Value")])

\* a geometry of one of the six coordinate kinds, from its parsed coordinates
Geometry_of_coordinates(name, c) ==
  IF c.ok
    THEN Ok([type |-> name, coordinates |-> c.val[1], geometries |-> <<>>])
    ELSE c

\* a geometry collection, from its parsed members
Geometry_of_geometries(gs) ==
  IF gs.ok
    THEN Ok([type |-> "GeometryCollection", coordinates |-> <<>>,
             geometries |-> gs.val[1]])
    ELSE gs

RECURSIVE Geometry_from_object(_)
Geometry_from_object(obj) ==
  IF "type" \notin DOMAIN obj THEN Err("ExpectedProperty")
  ELSE IF obj["type"].kind # "String" THEN Err("ExpectedStringValue")
  ELSE IF obj["type"].s \in GeometryTypeNames THEN
    IF "coordinates" \notin DOMAIN obj THEN Err("ExpectedProperty")
    ELSE Geometry_of_coordinates(obj["type"].s, get_coords(obj["coordinates"]))
  ELSE IF obj["type"].s = "GeometryCollection" THEN
    IF "geometries" \notin DOMAIN obj THEN Err("ExpectedProperty")
    ELSE IF obj["geometries"].kind # "Array" THEN Err("ExpectedArrayValue")
    ELSE Geometry_of_geometries(
           Collect([i \in DOMAIN obj["geometries"].a |->
                      IF obj["geometries"].a[i].kind = "Object"
                        THEN Geometry_from_object(obj["geometries"].a[i].o)
                        ELSE Err("ExpectedObjectValue")]))
  ELSE Err("GeometryUnknownType")

RECURSIVE Geometry_to_object(_)
Geometry_to_object(g) ==
  IF g.type = "GeometryCollection"
    THEN [k \in {"type", "geometries"} |->
            IF k = "type" THEN JString(g.type)
            ELSE JArray([i \in DOMAIN g.geometries |->
                           JObject(Geometry_to_object(g.geometries[i]))])]
    ELSE [k \in {"type", "coordinates"} |->
            IF k = "type" THEN JString(g.type)
            ELSE JArray([i \in DOMAIN g.coordinates |->
                           JNumber(g.coordinates[i])])]

\* Result::map(Some)
Result_map_Some(g) == IF g.ok THEN Ok(Some(g.val[1])) ELSE g

\* the "geometry" member of a feature: an object, or null / absent
get_geometry(obj) ==
  IF "geometry" \notin DOMAIN obj THEN Ok(None)
  ELSE IF obj["geometry"].kind = "Null" THEN Ok(None)
  ELSE IF obj["geometry"].kind = "Object"
    THEN Result_map_Some(Geometry_from_object(obj["geometry"].o))
  ELSE Err("FeatureInvalidGeometryValue")

\* a feature, from its parsed "geometry" member
Feature_of_geometry(g) == IF g.ok THEN Ok([geometry |-> g.val[1]]) ELSE g

Feature_from_object(obj) ==
  IF "type" \notin DOMAIN obj THEN Err("ExpectedProperty")
  ELSE IF obj["type"].kind # "String" THEN Err("ExpectedStringValue")
  ELSE IF obj["type"].s # "Feature" THEN Err("GeoJsonUnknownType")
  ELSE Feature_of_geometry(get_geometry(obj))

Feature_to_object(f) ==
  [k \in {"type", "geometry"} |->
     IF k = "type" THEN JString("Feature")
     ELSE IF f.geometry = None THEN JNull
     ELSE JObject(Geometry_to_object(f.geometry[1]))]

\* a feature collection, from its parsed "features" member
FeatureCollection_of_features(fs) ==
  IF fs.ok THEN Ok([features |-> fs.val[1]]) ELSE fs

FeatureCollection_from_object(obj) ==
  IF "type" \notin DOMAIN obj THEN Err("ExpectedProperty")
  ELSE IF obj["type"].kind # "String" THEN Err("ExpectedStringValue")
  ELSE IF obj["type"].s # "FeatureCollection" THEN Err("GeoJsonUnknownType")
  ELSE IF "features" \notin DOMAIN obj THEN Err("ExpectedProperty")
  ELSE IF obj["features"].kind # "Array" THEN Err("ExpectedArrayValue")
  ELSE FeatureCollection_of_features(
         Collect([i \in DOMAIN obj["features"].a |->
                    IF obj["features"].a[i].kind = "Object"
                      THEN Feature_from_object(obj["features"].a[i].o)
                      ELSE Err("ExpectedObjectValue")]))

FeatureCollection_to_object(fc) ==
  [k \in {"type", "features"} |->
     IF k = "type" THEN JString("FeatureCollection")
     ELSE JArray([i \in DOMAIN fc.features |->
                    JObject(Feature_to_object(fc.features[i]))])]

(***************************************************************************)
(* enum GeoJson and its conversions.                                       *)
(***************************************************************************)
\* the three variants of the enum
GeoJson_Geometry(geometry) == [variant |-> "Geometry", value |-> geometry]
GeoJson_Feature(feature) == [variant |-> "Feature", value |-> feature]
GeoJson_FeatureCollection(fc) == [variant |-> "FeatureCollection", value |-> fc]

\* Result::map that replaces the error of a failed parser
Result_map_unknown_type(r, variant) ==
  IF r.ok THEN Ok([variant |-> variant, value |-> r.val[1]])
  ELSE Err("GeoJsonUnknownType")

\* Result::map with a variant constructor: `.map(GeoJson::Geometry)` and its
\* two siblings in GeoJson::from_object
Result_map(r, variant) ==
  IF r.ok THEN Ok([variant |-> variant, value |-> r.val[1]]) ELSE r

\* impl From<Geometry> / From<Feature> / From<FeatureCollection> for GeoJson
GeoJson_from_Geometry(geometry) == GeoJson_Geometry(geometry)
GeoJson_from_Feature(feature) == GeoJson_Feature(feature)
GeoJson_from_FeatureCollection(feature_collection) ==
  GeoJson_FeatureCollection(feature_collection)

\* JsonObject::from whose feature arm converts the geometry of the feature
JsonObject_from_feature_geometry(geojson) ==
  CASE geojson.variant = "Geometry" -> Geometry_to_object(geojson.value)
    [] geojson.variant = "Feature" ->
         IF geojson.value.geometry # None
           THEN Geometry_to_object(geojson.value.geometry[1])
           ELSE Feature_to_object(geojson.value)
    [] geojson.variant = "FeatureCollection" ->
         FeatureCollection_to_object(geojson.value)

\* impl From<&GeoJson> for JsonObject
JsonObject_from(geojson) ==
  CASE geojson.variant = "Geometry" -> Geometry_to_object(geojson.value)
    [] geojson.variant = "Feature" -> Feature_to_object(geojson.value)
    [] geojson.variant = "FeatureCollection" ->
         FeatureCollection_to_object(geojson.value)

\* MatchArm whose last arm is the feature arm instead of the catch-all
MatchArm_no_catch_all(t) ==
  IF t # None /\ is_geometry_type(t[1]) THEN "Geometry"
  ELSE IF t = Some(Type_FeatureCollection) THEN "FeatureCollection"
  ELSE "Feature"

\* the arm of the match on type_ in GeoJson::from_object that is taken
MatchArm(t) ==
  IF t # None /\ is_geometry_type(t[1]) THEN "Geometry"
  ELSE IF t = Some(Type_Feature) THEN "Feature"
  ELSE IF t = Some(Type_FeatureCollection) THEN "FeatureCollection"
  ELSE "_"

\* the functions the match on type_ evaluates before an arm's body runs
MatchGuards(t) == IF t # None THEN <<"Type::is_geometry_type">> ELSE <<>>

(***************************************************************************)
(* The JSON codec (serde_json::from_str / serde_json::to_string) over a    *)
(* text made of lexical tokens.                                            *)
(***************************************************************************)
Tok(t) == [t |-> t, s |-> "", n |-> 0]
StrTok(str) == [t |-> "str", s |-> str, n |-> 0]
NumTok(i) == [t |-> "num", s |-> "", n |-> i]

\* the keys of a map in the order the map iterates them (sorted)
KeyOrder == <<"coordinates", "features", "geometries", "geometry", "type">>
Map_keys(map) == SelectSeq(KeyOrder, LAMBDA k : k \in DOMAIN map)

RECURSIVE encode(_), encode_items(_, _), encode_members(_, _)
encode(value) ==
  CASE value.kind = "Null" -> <<Tok("null")>>
    [] value.kind = "Bool" -> <<Tok(IF value.n = 1 THEN "true" ELSE "false")>>
    [] value.kind = "Number" -> <<NumTok(value.n)>>
    [] value.kind = "String" -> <<StrTok(value.s)>>
    [] value.kind = "Array" ->
         <<Tok("[")>> \o encode_items(value.a, 1) \o <<Tok("]")>>
    [] value.kind = "Object" ->
         <<Tok("{")>> \o encode_members(value.o, Map_keys(value.o))
           \o <<Tok("}")>>
encode_items(items, i) ==
  IF i > Len(items) THEN <<>>
  ELSE (IF i > 1 THEN <<Tok(",")>> ELSE <<>>) \o encode(items[i])
         \o encode_items(items, i + 1)
encode_members(map, keys) ==
  IF keys = <<>> THEN <<>>
  ELSE <<StrTok(Head(keys)), Tok(":")>> \o encode(map[Head(keys)])
         \o (IF Len(keys) > 1 THEN <<Tok(",")>> ELSE <<>>)
         \o encode_members(map, Tail(keys))

Parsed(v, rest) == [ok |-> TRUE, val |-> v, rest |-> rest]
ParseFail == [ok |-> FALSE, val |-> JNull, rest |-> <<>>]

Map_insert(map, key, v) ==
  [k \in DOMAIN map \cup {key} |-> IF k = key THEN v ELSE map[k]]

RECURSIVE parse_value(_), parse_items(_, _), parse_members(_, _)
parse_value(toks) ==
  IF toks = <<>> THEN ParseFail
  ELSE LET h == Head(toks)
           r == Tail(toks)
       IN CASE h.t = "null" -> Parsed(JNull, r)
            [] h.t = "true" -> Parsed(JBool(TRUE), r)
            [] h.t = "false" -> Parsed(JBool(FALSE), r)
            [] h.t = "num" -> Parsed(JNumber(h.n), r)
            [] h.t = "str" -> Parsed(JString(h.s), r)
            [] h.t = "[" ->
                 IF r # <<>> /\ Head(r).t = "]"
                   THEN Parsed(JArray(<<>>), Tail(r))
                   ELSE parse_items(r, <<>>)
            [] h.t = "{" ->
                 IF r # <<>> /\ Head(r).t = "}"
                   THEN Parsed(JObject(<<>>), Tail(r))
                   ELSE parse_members(r, <<>>)
            [] OTHER -> ParseFail
parse_items(toks, acc) ==
  LET v == parse_value(toks)
  IN IF ~v.ok \/ v.rest = <<>> THEN ParseFail
     ELSE IF Head(v.rest).t = ","
       THEN parse_items(Tail(v.rest), Append(acc, v.val))
     ELSE IF Head(v.rest).t = "]"
       THEN Parsed(JArray(Append(acc, v.val)), Tail(v.rest))
     ELSE ParseFail
parse_members(toks, acc) ==
  IF Len(toks) < 3 \/ toks[1].t # "str" \/ toks[2].t # ":" THEN ParseFail
  ELSE LET v == parse_value(SubSeq(toks, 3, Len(toks)))
       IN IF ~v.ok \/ v.rest = <<>> THEN ParseFail
          ELSE IF Head(v.rest).t = ","
            THEN parse_members(Tail(v.rest), Map_insert(acc, toks[1].s, v.val))
          ELSE IF Head(v.rest).t = "}"
            THEN Parsed(JObject(Map_insert(acc, toks[1].s, v.val)),
                        Tail(v.rest))
          ELSE ParseFail

\* a text is one value followed by nothing
decode_end(v) == IF v.ok /\ v.rest = <<>> THEN Ok(v.val) ELSE Err("syntax")

\* serde_json::from_str
decode(s) == decode_end(parse_value(s))

(***************************************************************************)
(* The entry points of geojson.rs.                                         *)
(***************************************************************************)
\* one execution: its result, the tag it resolved, the functions it called
\* in order, and what the delegated parser returned
Run(r, t, c, d) == [result |-> r, type_ |-> t, calls |-> c, delegated |-> d]

\* from_object_type that reads a value that is not a string as the empty
\* string (as_str().unwrap_or("")) instead of returning early
from_object_type_unwrap_or(obj) ==
  LET got == Map_get(obj, "type")
  IN IF got = None
       THEN [ret |-> Some(Err("ExpectedProperty")), type_ |-> None,
             calls |-> <<>>]
     ELSE [ret |-> None,
           type_ |-> Type_from_str(IF got[1].kind = "String" THEN got[1].s
                                   ELSE ""),
           calls |-> <<"Type::from_str">>]

\* from_object_type with the lookup chained through Option::and_then, so that
\* a missing key is an unresolved tag instead of an early return
from_object_type_and_then(obj) ==
  LET got == Map_get(obj, "type")
  IN IF got = None
       THEN [ret |-> None, type_ |-> None, calls |-> <<>>]
     ELSE LET str == expect_string(got[1])
          IN IF ~str.ok
               THEN [ret |-> Some(Err(str.err)), type_ |-> None,
                     calls |-> <<>>]
               ELSE [ret |-> None, type_ |-> Type_from_str(str.val[1]),
                     calls |-> <<"Type::from_str">>]

\* GeoJson::from_object, the binding of type_: an early return, or the tag
from_object_type(obj) ==
  LET got == Map_get(obj, "type")
  IN IF got = None
       THEN [ret |-> Some(Err("ExpectedProperty")), type_ |-> None,
             calls |-> <<>>]
     ELSE LET str == expect_string(got[1])
          IN IF ~str.ok
               THEN [ret |-> Some(Err(str.err)), type_ |-> None,
                     calls |-> <<>>]
               ELSE [ret |-> None, type_ |-> Type_from_str(str.val[1]),
                     calls |-> <<"Type::from_str">>]

\* an arm of the match that delegates: the parser named `name` returned r,
\* which is mapped into `variant`
Delegate(name, variant, r, t, pre) ==
  Run(Result_map(r, variant), t, Append(pre, name), Some(r))

\* GeoJson::from_object, the match on type_
from_object_match(obj, t) ==
  CASE MatchArm(t) = "Geometry" ->
         Delegate("Geometry::from_object", "Geometry",
                  Geometry_from_object(obj), t, MatchGuards(t))
    [] MatchArm(t) = "Feature" ->
         Delegate("Feature::from_object", "Feature",
                  Feature_from_object(obj), t, MatchGuards(t))
    [] MatchArm(t) = "FeatureCollection" ->
         Delegate("FeatureCollection::from_object", "FeatureCollection",
                  FeatureCollection_from_object(obj), t, MatchGuards(t))
    [] OTHER -> Run(Err("GeoJsonUnknownType"), t, MatchGuards(t), None)

\* a run that continues the trace `pre` of its caller
Continue(pre, run) ==
  Run(run.result, run.type_, pre \o run.calls, run.delegated)

\* GeoJson::from_object once type_ is bound or the early return is taken
from_object_typed(obj, head) ==
  IF head.ret # None THEN Run(head.ret[1], None, head.calls, None)
  ELSE Continue(head.calls, from_object_match(obj, head.type_))

\* impl FromObject for GeoJson
from_object(obj) == from_object_typed(obj, from_object_type(obj))

\* get_object on a value that is not an object taken for an empty object
object_of_or_default(decoded_json) ==
  IF ~decoded_json.ok THEN Err("MalformedJson")
  ELSE IF decoded_json.val[1].kind = "Object" THEN Ok(decoded_json.val[1].o)
  ELSE Ok(<<>>)

\* get_object, the two matches on what the codec returned
object_of(decoded_json) ==
  IF ~decoded_json.ok THEN Err("MalformedJson")
  ELSE IF decoded_json.val[1].kind = "Object" THEN Ok(decoded_json.val[1].o)
  ELSE Err("MalformedJson")

get_object(s) == object_of(decode(s))

\* try!(get_object(s)) followed by GeoJson::from_object(object)
from_str_object(obj) ==
  IF ~obj.ok THEN Run(Err(obj.err), None, <<>>, None)
  ELSE from_object(obj.val[1])

\* impl FromStr for GeoJson
from_str(s) == Continue(<<"get_object">>, from_str_object(get_object(s)))

\* impl Serialize for GeoJson, driven by serde_json::to_string
serialize(geojson) == encode(JObject(JsonObject_from(geojson)))

\* fmt that writes the text short of its last token
fmt_truncated(geojson) ==
  SubSeq(serialize(geojson), 1, Len(serialize(geojson)) - 1)

\* impl fmt::Display for GeoJson
fmt(geojson) == serialize(geojson)

(***************************************************************************)
(* The inputs a caller can hand to the entry points.                       *)
(***************************************************************************)
SeqsUpTo(S, n) == UNION { [1..k -> S] : k \in 0..n }

Positions == [1..2 -> 0..MaxCoord]

SimpleGeometries ==
  { [type |-> name, coordinates |-> p, geometries |-> <<>>] :
      name \in GeometryTypeNames, p \in Positions }

\* the members a geometry collection is built from
Points == { g \in SimpleGeometries : g.type = "Point" }

Geometries ==
  SimpleGeometries \cup
  { [type |-> "GeometryCollection", coordinates |-> <<>>, geometries |-> gs] :
      gs \in SeqsUpTo(Points, MaxGeometries) }

Features == { [geometry |-> g] : g \in {None} \cup { Some(x) : x \in Geometries } }

FeatureCollections ==
  { [features |-> fs] : fs \in SeqsUpTo(Features, MaxFeatures) }

\* the nine recognized literals
TypeLiterals == { t.Type : t \in Type }

\* strings that are not a recognized literal, some of them near misses
OtherStrings ==
  { "point", " Point", "Point ", "POINT", "feature", "Feature ",
    "featurecollection", "Featurecollection", "Geometry", "NotAType", "" }

NonStrings ==
  { JNull, JBool(TRUE), JNumber(1), JArray(<<JString("Point")>>),
    JObject([k \in {"type"} |-> JString("Point")]) }

PointObject(coordinates) ==
  [k \in {"type", "coordinates"} |->
     IF k = "type" THEN JString("Point") ELSE coordinates]

\* candidate values of each key; None stands for an absent key
TypeChoices ==
  {None} \cup { Some(JString(str)) : str \in TypeLiterals \cup OtherStrings }
         \cup { Some(v) : v \in NonStrings }
CoordinatesChoices ==
  { None, Some(JArray(<<JNumber(0), JNumber(MaxCoord)>>)),
    Some(JArray(<<JNumber(0), JString("x")>>)), Some(JString("x")) }
GeometriesChoices ==
  { None, Some(JArray(<<>>)), Some(JArray(<<JNull>>)),
    Some(JArray(<<JObject(PointObject(JArray(<<JNumber(0), JNumber(1)>>)))>>)) }
GeometryChoices ==
  { None, Some(JNull), Some(JBool(FALSE)),
    Some(JObject(PointObject(JArray(<<JNumber(0), JNumber(1)>>)))) }
FeaturesChoices ==
  { None, Some(JArray(<<>>)), Some(JNumber(0)),
    Some(JArray(<<JObject([k \in {"type"} |-> JString("Feature")])>>)),
    Some(JArray(<<JObject([k \in {"type"} |-> JString("Point")])>>)) }

MkObject(choice) ==
  [k \in { key \in DOMAIN choice : choice[key] # None } |-> choice[k][1]]

Objects ==
  { MkObject([type |-> t, coordinates |-> c, geometries |-> gs,
              geometry |-> g, features |-> fs]) :
      t \in TypeChoices, c \in CoordinatesChoices, gs \in GeometriesChoices,
      g \in GeometryChoices, fs \in FeaturesChoices }

\* texts that do not decode to an object
BadTexts ==
  { <<>>,
    <<Tok("{"), Tok("junk"), Tok("junk")>>,
    <<Tok("{"), StrTok("type"), Tok(":"), StrTok("Point")>>,
    <<Tok("{"), StrTok("type"), StrTok("Point"), Tok("}")>>,
    <<Tok("{"), Tok("}"), Tok("}")>>,
    <<Tok("["), NumTok(1), Tok(","), NumTok(2), Tok(","), NumTok(3), Tok("]")>>,
    <<StrTok("Point")>>, <<NumTok(1)>>, <<Tok("true")>>, <<Tok("null")>>,
    <<Tok("["), Tok("{"), StrTok("type"), Tok(":"), StrTok("Point"), Tok("}"),
      Tok("]")>> }

Texts == BadTexts \cup { encode(JObject(o)) : o \in Objects }

(***************************************************************************)
(* The state machine: a caller builds or receives a document, an object    *)
(* or a text, and runs one of the entry points on it.                      *)
(***************************************************************************)
Init ==
  /\ pc = "idle"
  /\ doc = None
  /\ text = None
  /\ object = None
  /\ type_ = None
  /\ calls = <<>>
  /\ delegated = None
  /\ result = None
  /\ entry = ""

\* GeoJson::from(geometry)
NewGeometry ==
  /\ pc = "idle"
  /\ \E geometry \in Geometries : doc' = Some(GeoJson_from_Geometry(geometry))
  /\ pc' = "doc"
  /\ UNCHANGED <<text, object, type_, calls, delegated, result, entry>>

\* GeoJson::from(feature)
NewFeature ==
  /\ pc = "idle"
  /\ \E feature \in Features : doc' = Some(GeoJson_from_Feature(feature))
  /\ pc' = "doc"
  /\ UNCHANGED <<text, object, type_, calls, delegated, result, entry>>

\* GeoJson::from(feature_collection)
NewFeatureCollection ==
  /\ pc = "idle"
  /\ \E fc \in FeatureCollections :
       doc' = Some(GeoJson_from_FeatureCollection(fc))
  /\ pc' = "doc"
  /\ UNCHANGED <<text, object, type_, calls, delegated, result, entry>>

\* JsonObject::from(&doc)
ToJsonObject ==
  /\ pc = "doc"
  /\ object' = Some(JsonObject_from(doc[1]))
  /\ pc' = "object"
  /\ UNCHANGED <<doc, text, type_, calls, delegated, result, entry>>

\* doc.to_string()
Display ==
  /\ pc = "doc"
  /\ text' = Some(fmt(doc[1]))
  /\ pc' = "text"
  /\ UNCHANGED <<doc, object, type_, calls, delegated, result, entry>>

\* the caller holds an object of its own
GivenObject ==
  /\ pc = "idle"
  /\ \E o \in Objects : object' = Some(o)
  /\ pc' = "object"
  /\ UNCHANGED <<doc, text, type_, calls, delegated, result, entry>>

\* the caller holds a text of its own
GivenText ==
  /\ pc = "idle"
  /\ \E s \in Texts : text' = Some(s)
  /\ pc' = "text"
  /\ UNCHANGED <<doc, object, type_, calls, delegated, result, entry>>

\* GeoJson::from_object(object)
FromObject ==
  /\ pc = "object"
  /\ \E run \in {from_object(object[1])} :
       /\ result' = Some(run.result)
       /\ type_' = run.type_
       /\ calls' = run.calls
       /\ delegated' = run.delegated
  /\ entry' = "from_object"
  /\ pc' = "done"
  /\ UNCHANGED <<doc, text, object>>

\* text.parse::<GeoJson>()
FromStr ==
  /\ pc = "text"
  /\ \E run \in {from_str(text[1])} :
       /\ result' = Some(run.result)
       /\ type_' = run.type_
       /\ calls' = run.calls
       /\ delegated' = run.delegated
  /\ entry' = "from_str"
  /\ pc' = "done"
  /\ UNCHANGED <<doc, text, object>>

Next ==
  \/ NewGeometry
  \/ NewFeature
  \/ NewFeatureCollection
  \/ ToJsonObject
  \/ Display
  \/ GivenObject
  \/ GivenText
  \/ FromObject
  \/ FromStr

Spec == Init /\ [][Next]_vars

TypeOK ==
  /\ pc \in {"idle", "doc", "object", "text", "done"}
  /\ entry \in {"", "from_object", "from_str"}
  /\ Len(result) <= 1

(***************************************************************************)
(* Vocabulary of the properties.                                           *)
(***************************************************************************)
ParserNames ==
  { "Geometry::from_object", "Feature::from_object",
    "FeatureCollection::from_object" }

\* the positions of the trace at which a delegated parser was called
ParserCalls == { i \in DOMAIN calls : calls[i] \in ParserNames }

Called(name) == \E i \in DOMAIN calls : calls[i] = name

\* GeoJson::from_object has returned on the object the caller passed
DoneFromObject == pc = "done" /\ entry = "from_object"

\* text.parse::<GeoJson>() has returned on the text the caller passed
DoneFromStr == pc = "done" /\ entry = "from_str"

\* the object passed carries a string under "type"
HasStringType ==
  /\ "type" \in DOMAIN object[1]
  /\ object[1]["type"].kind = "String"

\* the seven tags of the geometry family
GeometryFamily == GeometryTypeNames \cup {"GeometryCollection"}

(***************************************************************************)
(* C1: an object without a "type" key makes GeoJson::from_object fail with *)
(* ExpectedProperty, whatever other keys it holds, and none of the three   *)
(* delegated parsers is called.                                            *)
(***************************************************************************)
C1_MissingTypeIsExpectedProperty ==
  (DoneFromObject /\ "type" \notin DOMAIN object[1]) =>
    /\ result = Some(Err("ExpectedProperty"))
    /\ ParserCalls = {}

C1_Witness ==
  /\ DoneFromObject
  /\ DOMAIN object[1] = {"coordinates", "geometry", "features"}
  /\ result = Some(Err("ExpectedProperty"))

(***************************************************************************)
(* C2: a "type" string that is not one of the nine literals makes          *)
(* GeoJson::from_object fail with GeoJsonUnknownType without calling any   *)
(* delegated parser; whenever a delegated parser is called, Type::from_str *)
(* and Type::is_geometry_type were called before it.                       *)
(***************************************************************************)
C2_UnknownTypeNeverReachesParser ==
  /\ (DoneFromObject /\ HasStringType
        /\ object[1]["type"].s \notin TypeLiterals) =>
       /\ result = Some(Err("GeoJsonUnknownType"))
       /\ ParserCalls = {}
  /\ \A i \in ParserCalls :
       /\ \E j \in 1..(i - 1) : calls[j] = "Type::from_str"
       /\ \E j \in 1..(i - 1) : calls[j] = "Type::is_geometry_type"

C2_Witness ==
  /\ DoneFromObject
  /\ HasStringType
  /\ object[1]["type"].s = "NotAType"
  /\ "coordinates" \in DOMAIN object[1]
  /\ result = Some(Err("GeoJsonUnknownType"))
  /\ calls = <<"Type::from_str">>

(***************************************************************************)
(* C3: for each of the seven geometry-family tags GeoJson::from_object     *)
(* hands the whole object to the geometry parser and to no other parser,   *)
(* and when that parser succeeds the result is the Geometry variant        *)
(* wrapping the value the parser returned.                                 *)
(***************************************************************************)
C3_GeometryTagsGoToGeometryParser ==
  (DoneFromObject /\ HasStringType
     /\ object[1]["type"].s \in GeometryFamily) =>
    /\ Cardinality(ParserCalls) = 1
    /\ Called("Geometry::from_object")
    /\ delegated = Some(Geometry_from_object(object[1]))
    /\ delegated[1].ok =>
         /\ result[1].ok
         /\ result[1].val[1].variant = "Geometry"
         /\ result[1].val[1].value = delegated[1].val[1]

C3_Witness ==
  /\ DoneFromObject
  /\ HasStringType
  /\ object[1]["type"].s = "GeometryCollection"
  /\ result # None /\ result[1].ok
  /\ result[1].val[1].variant = "Geometry"
  /\ Len(result[1].val[1].value.geometries) = 1

(***************************************************************************)
(* C4: "Feature" goes to the feature parser only and yields the Feature    *)
(* variant, "FeatureCollection" goes to the feature-collection parser only *)
(* and yields the FeatureCollection variant; the geometry parser is not    *)
(* called for either tag.                                                  *)
(***************************************************************************)
C4_FeatureTagsGoToTheirParser ==
  \A name \in {"Feature", "FeatureCollection"} :
    (DoneFromObject /\ HasStringType /\ object[1]["type"].s = name) =>
      /\ Cardinality(ParserCalls) = 1
      /\ Called(name \o "::from_object")
      /\ ~Called("Geometry::from_object")
      /\ delegated =
           Some(IF name = "Feature" THEN Feature_from_object(object[1])
                ELSE FeatureCollection_from_object(object[1]))
      /\ delegated[1].ok =>
           /\ result[1].ok
           /\ result[1].val[1].variant = name
           /\ result[1].val[1].value = delegated[1].val[1]

C4_Witness ==
  /\ DoneFromObject
  /\ HasStringType
  /\ object[1]["type"].s = "FeatureCollection"
  /\ "coordinates" \in DOMAIN object[1]
  /\ result # None /\ result[1].ok
  /\ result[1].val[1].variant = "FeatureCollection"
  /\ Len(result[1].val[1].value.features) = 1

(***************************************************************************)
(* C5: when the delegated parser selected for a recognized tag fails with  *)
(* error e, GeoJson::from_object fails with exactly e, and the failed      *)
(* parser is the only parser called and the last call made.                *)
(***************************************************************************)
C5_ParserErrorPropagatesUnchanged ==
  (pc = "done" /\ delegated # None /\ ~delegated[1].ok) =>
    /\ result = Some(Err(delegated[1].err))
    /\ Cardinality(ParserCalls) = 1
    /\ Len(calls) \in ParserCalls

C5_Witness ==
  /\ DoneFromObject
  /\ HasStringType
  /\ object[1]["type"].s = "Point"
  /\ delegated = Some(Err("ExpectedF64Value"))
  /\ result = Some(Err("ExpectedF64Value"))

(***************************************************************************)
(* C6: round trip through the generic object: for every geometry, feature  *)
(* or feature-collection value v, GeoJson::from_object applied to          *)
(* JsonObject::from(&GeoJson::from(v)) succeeds and returns GeoJson::from(v)*)
(* again, in the same variant.                                             *)
(***************************************************************************)
C6_ObjectRoundTrip ==
  (DoneFromObject /\ doc # None) => result = Some(Ok(doc[1]))

C6_Witness ==
  /\ DoneFromObject
  /\ doc # None
  /\ doc[1].variant = "Feature"
  /\ doc[1].value.geometry # None
  /\ doc[1].value.geometry[1].type = "GeometryCollection"
  /\ object = Some(JsonObject_from(doc[1]))
  /\ result = Some(Ok(doc[1]))

(***************************************************************************)
(* C7: round trip through text: parsing the text that Display writes for a *)
(* document succeeds and returns a value equal to that document.           *)
(***************************************************************************)
C7_TextRoundTrip ==
  (DoneFromStr /\ doc # None) => result = Some(Ok(doc[1]))

C7_Witness ==
  /\ DoneFromStr
  /\ doc # None
  /\ doc[1].variant = "FeatureCollection"
  /\ Len(doc[1].value.features) = MaxFeatures
  /\ text = Some(fmt(doc[1]))
  /\ result = Some(Ok(doc[1]))

(***************************************************************************)
(* C8: parsing a text fails with MalformedJson when the codec cannot       *)
(* decode it and when the decoded value is not an object, and then neither *)
(* tag resolution nor a delegated parser runs; otherwise the result is the *)
(* result of GeoJson::from_object on the decoded object.                   *)
(***************************************************************************)
C8_FromStrMalformedOrFromObject ==
  DoneFromStr =>
    \A decoded \in {decode(text[1])} :
      IF ~decoded.ok \/ decoded.val[1].kind # "Object"
        THEN /\ result = Some(Err("MalformedJson"))
             /\ ~Called("Type::from_str")
             /\ ~Called("Type::is_geometry_type")
             /\ ParserCalls = {}
        ELSE result = Some(from_object(decoded.val[1].o).result)

C8_Witness ==
  /\ DoneFromStr
  /\ text = Some(<<Tok("["), NumTok(1), Tok(","), NumTok(2), Tok(","),
                   NumTok(3), Tok("]")>>)
  /\ decode(text[1]) = Ok(JArray(<<JNumber(1), JNumber(2), JNumber(3)>>))
  /\ result = Some(Err("MalformedJson"))

(***************************************************************************)
(* C9: Type::from_str is total: it returns the tag spelled exactly by its  *)
(* input for the nine literals and no tag for every other string, also for *)
(* strings that differ from a literal only in case or surrounding blanks.  *)
(***************************************************************************)
C9_TypeFromStrExactMatch ==
  (DoneFromObject /\ HasStringType) =>
    LET s == object[1]["type"].s
    IN /\ Called("Type::from_str")
       /\ type_ \in {None} \cup { Some(t) : t \in Type }
       /\ s \in TypeLiterals => type_ = Some([Type |-> s])
       /\ s \notin TypeLiterals => type_ = None
       /\ type_ # None => type_[1].Type = s

C9_Witness ==
  /\ DoneFromObject
  /\ HasStringType
  /\ object[1]["type"].s = " Point"
  /\ Called("Type::from_str")
  /\ type_ = None

(***************************************************************************)
(* C10: a "type" key holding a value that is not a string makes            *)
(* GeoJson::from_object return a format error to the caller, before any    *)
(* tag is resolved and without calling a delegated parser.                 *)
(***************************************************************************)
C10_NonStringTypeIsFormatError ==
  (DoneFromObject /\ "type" \in DOMAIN object[1]
     /\ object[1]["type"].kind # "String") =>
    /\ result = Some(Err("ExpectedStringValue"))
    /\ ~Called("Type::from_str")
    /\ type_ = None
    /\ ParserCalls = {}

C10_Witness ==
  /\ DoneFromObject
  /\ "type" \in DOMAIN object[1]
  /\ object[1]["type"] = JNumber(1)
  /\ result = Some(Err("ExpectedStringValue"))
  /\ calls = <<>>

====
